---- MODULE Spec2Model ----
(***************************************************************************)
(* cligh: the cursor-paginated GraphQL aggregation (v4request_all_pages)   *)
(* and the bulk commands with confirmation prompts.                        *)
(*                                                                         *)
(* JSON values are tagged records: None, Bool, Str (a sequence of          *)
(* symbols), List (a sequence of values) and Dict (an ordered sequence of  *)
(* key/value entries).  Decoded documents live in a heap of objects, so    *)
(* that the in-place `a += b` of merge is a heap update.                   *)
(***************************************************************************)
EXTENDS Integers, Sequences, FiniteSets, TLC

\* ---- bounds ----
MaxPages == 3
MaxLen == 2
MaxCalls == 2
MaxItems == 3
MaxV3Pages == 3
MaxRepos == 4
MaxDirs == 2
MaxParPages == 2

\* ---- JSON values ----
None == [kind |-> "none"]
Bool(b) == [kind |-> "bool", b |-> b]
Str(s) == [kind |-> "str", s |-> s]
List(items) == [kind |-> "list", items |-> items]
Dict(items) == [kind |-> "dict", items |-> items]
Entry(k, v) == [k |-> k, v |-> v]
PyError(e) == [kind |-> "error", e |-> e]

IsError(v) == v.kind = "error"

\* Python truth value of a decoded JSON value
Truthy(v) ==
    CASE v.kind = "none" -> FALSE
      [] v.kind = "bool" -> v.b
      [] v.kind = "str"  -> v.s # <<>>
      [] v.kind = "list" -> v.items # <<>>
      [] v.kind = "dict" -> v.items # <<>>
      [] OTHER -> FALSE

HasKey(v, k) == v.kind = "dict" /\ \E i \in 1..Len(v.items) : v.items[i].k = k

\* v[k]: KeyError on a dict without the key, TypeError on anything that is
\* not a dict (string keys index neither lists nor strings nor None)
GetItem(v, k) ==
    IF IsError(v) THEN v
    ELSE IF v.kind # "dict" THEN PyError("TypeError")
    ELSE IF ~HasKey(v, k) THEN PyError("KeyError")
    ELSE v.items[CHOOSE i \in 1..Len(v.items) : v.items[i].k = k].v

\* the `for k in keys: v = v[k]` walk
RECURSIVE Walk(_, _)
Walk(v, keys) ==
    IF keys = <<>> \/ IsError(v) THEN v
    ELSE Walk(GetItem(v, Head(keys)), Tail(keys))

\* get(json, path) of v4request_all_pages; a path is its list of keys
get(json, path) == Walk(json, path)

\* keys with the last one replaced by 'pageInfo'
PageInfoKeys(path) == SubSeq(path, 1, Len(path) - 1) \o <<"pageInfo">>

next_pageMutIgnoreHasNext(json, path) ==
    LET v == Walk(json, PageInfoKeys(path))
        h == GetItem(v, "hasNextPage")
    IN  IF IsError(h) THEN h ELSE GetItem(v, "endCursor")

\* next_page(json, path): endCursor when hasNextPage is truthy, else None
next_page(json, path) ==
    LET v == Walk(json, PageInfoKeys(path))
        h == GetItem(v, "hasNextPage")
    IN  IF IsError(h) THEN h
        ELSE IF Truthy(h) THEN GetItem(v, "endCursor")
        ELSE None

RECURSIVE SetAtMutDropSiblings(_, _, _)
SetAtMutDropSiblings(v, keys, new) ==
    IF keys = <<>> THEN new
    ELSE Dict(SelectSeq([i \in 1..Len(v.items) |->
                 IF v.items[i].k = Head(keys)
                 THEN Entry(v.items[i].k, SetAtMutDropSiblings(v.items[i].v, Tail(keys), new))
                 ELSE v.items[i]], LAMBDA e : e.k = Head(keys)))

\* document with the value at the key path replaced (the in-place update of
\* the object the path leads to)
RECURSIVE SetAt(_, _, _)
SetAt(v, keys, new) ==
    IF keys = <<>> THEN new
    ELSE Dict([i \in 1..Len(v.items) |->
                 IF v.items[i].k = Head(keys)
                 THEN Entry(v.items[i].k, SetAt(v.items[i].v, Tail(keys), new))
                 ELSE v.items[i]])

\* the elements Python iterates over when a value is the right operand of
\* list +=  (a string gives its symbols, a dict its keys)
IterItems(b) ==
    CASE b.kind = "list" -> b.items
      [] b.kind = "str"  -> [i \in 1..Len(b.s) |-> Str(<<b.s[i]>>)]
      [] b.kind = "dict" -> [i \in 1..Len(b.items) |-> Str(<<b.items[i].k>>)]
      [] OTHER -> <<>>

IAddMutPrepend(a, b) ==
    IF a.kind = "list" /\ b.kind \in {"list", "str", "dict"}
    THEN [err |-> "", inplace |-> TRUE, val |-> List(IterItems(b) \o a.items)]
    ELSE IF a.kind = "str" /\ b.kind = "str"
    THEN [err |-> "", inplace |-> FALSE, val |-> a]
    ELSE [err |-> "TypeError", inplace |-> FALSE, val |-> a]

\* a += b on two decoded values: a list is extended in place by any
\* iterable; str += str only rebinds the local name; everything else that
\* JSON decoding can produce raises TypeError
IAdd(a, b) ==
    IF a.kind = "list" /\ b.kind \in {"list", "str", "dict"}
    THEN [err |-> "", inplace |-> TRUE, val |-> List(a.items \o IterItems(b))]
    ELSE IF a.kind = "str" /\ b.kind = "str"
    THEN [err |-> "", inplace |-> FALSE, val |-> a]
    ELSE [err |-> "TypeError", inplace |-> FALSE, val |-> a]

\* merge(response_a, response_b, path) on the heap objects ia and ib:
\* the resulting heap, or the error raised
merge(h, ia, ib, path) ==
    LET a == get(h[ia], path)
        b == get(h[ib], path)
    IN  IF IsError(a) THEN [err |-> a.e, heap |-> h]
        ELSE IF IsError(b) THEN [err |-> b.e, heap |-> h]
        ELSE LET r == IAdd(a, b)
             IN  IF r.err # "" THEN [err |-> r.err, heap |-> h]
                 ELSE IF r.inplace
                 THEN [err |-> "", heap |-> [h EXCEPT ![ia] = SetAt(h[ia], path, r.val)]]
                 ELSE [err |-> "", heap |-> h]

\* ---- query formatting ----
\* A query is a sequence of tokens; Marker is a %s conversion.
Tok(t, v) == [t |-> t, v |-> v]
Lit(s) == Tok("lit", <<s>>)
Marker == Tok("%s", <<>>)

RECURSIVE CountMarkers(_)
CountMarkers(q) ==
    IF q = <<>> THEN 0
    ELSE (IF Head(q) = Marker THEN 1 ELSE 0) + CountMarkers(Tail(q))

RECURSIVE Subst(_, _)
Subst(q, args) ==
    IF q = <<>> THEN <<>>
    ELSE IF Head(q) = Marker THEN Head(args) \o Subst(Tail(q), Tail(args))
    ELSE <<Head(q)>> \o Subst(Tail(q), args)

PercentFormatMutLenient(q, args) ==
    IF CountMarkers(q) = Len(args) THEN [err |-> "", val |-> Subst(q, args)]
    ELSE [err |-> "", val |-> q]

\* q % args: TypeError unless the number of conversions equals the number
\* of arguments
PercentFormat(q, args) ==
    IF CountMarkers(q) # Len(args) THEN [err |-> "TypeError", val |-> <<>>]
    ELSE [err |-> "", val |-> Subst(q, args)]

PageSize == 50

PaginationArgsMutNoAfter(cursor) == <<Tok("first", <<ToString(PageSize)>>)>>

\* ("after: \"{}\" ".format(cursor) if cursor else "") + "first: 50"
PaginationArgs(cursor) ==
    (IF Truthy(cursor) THEN <<Tok("after", cursor.s)>> ELSE <<>>)
        \o <<Tok("first", <<ToString(PageSize)>>)>>

\* " pageInfo { endCursor hasNextPage } "
PageInfoFragment == <<Tok("pageInfo", <<"endCursor", "hasNextPage">>)>>

\* query(q): the request body wrapping q with the rateLimit selection
query(fq) == <<Lit("{")>> \o fq \o <<Lit("rateLimit"), Lit("}")>>

\* ---- the caller's arguments ----
\* the path argument, already split on "."
PathArg == <<"container", "items">>

\* path_to_paginated_array = "data." + path_to_paginated_array
FullPath == <<"data">> \o PathArg

\* query templates with zero to three %s conversions; get_repos passes the
\* one with two
Templates ==
    { <<Lit("repositories"), Lit("nodes")>>,
      <<Lit("repositories"), Marker, Lit("nodes")>>,
      <<Lit("repositories"), Marker, Lit("nodes"), Marker>>,
      <<Lit("repositories"), Marker, Lit("nodes"), Marker, Marker>> }

\* ---- the GraphQL server behind requests.post ----
CursorOf(k) == Str(<<"cursor", ToString(k)>>)

Nodes(k, n) ==
    [i \in 1..n |-> Dict(<<Entry("full_name", Str(<<"repo", ToString(k), ToString(i)>>))>>)]

\* the target field of page k: absent, null, a string, or a list of nodes
TargetOpts(k) ==
    {<<>>} \cup
    { <<Entry("items", v)>> :
        v \in {None, Str(<<"x", "y">>)} \cup {List(Nodes(k, n)) : n \in 0..MaxLen} }

\* the pageInfo field of page k: absent, or hasNextPage with an endCursor
\* that is null, empty or a cursor; the last page the server has does not
\* announce a further one
PageInfoOpts(k) ==
    {<<>>} \cup
    { <<Entry("pageInfo",
              Dict(<<Entry("endCursor", c), Entry("hasNextPage", Bool(h))>>))>> :
        <<h, c>> \in ({FALSE} \X {None, CursorOf(k)})
                     \cup ({TRUE} \X {None, Str(<<>>)})
                     \cup (IF k < MaxPages THEN {<<TRUE, CursorOf(k)>>} ELSE {}) }

PageDoc(t, pi) ==
    Dict(<<Entry("data", Dict(<<Entry("container", Dict(t \o pi))>>))>>)

ErrorDoc == Dict(<<Entry("errors", List(<<Str(<<"NOT_FOUND">>)>>))>>)

HttpOK == 200
HttpServerError == 500

\* what the server may answer to the k-th request of a call
Responses(k) ==
    {[status |-> HttpServerError, body |-> ErrorDoc], [status |-> HttpOK, body |-> ErrorDoc]}
    \cup { [status |-> HttpOK, body |-> PageDoc(t, pi)] :
             t \in TargetOpts(k), pi \in PageInfoOpts(k) }

VARIABLES
    q,               \* the query template of the calls
    pc,              \* position in v4request_all_pages
    cursor,          \* cursor
    formatted_q,     \* formatted_q
    response,        \* response of the latest requests.post
    responses,       \* responses: heap references of the decoded pages
    final_response,  \* final_response: heap reference (0: unset)
    mi,              \* position of `for r in responses`
    heap,            \* decoded documents, by reference
    err,             \* the exception that ended the call
    canned,          \* the page sequence the transport serves
    sent,            \* request bodies posted in this call
    decodes,         \* response.json() calls in this call
    calls,           \* calls started
    results          \* outcome of each finished call

aggVars == <<q, pc, cursor, formatted_q, response, responses, final_response,
             mi, heap, err, canned, sent, decodes, calls, results>>

NoResponse == [status |-> 0, body |-> None]

AggInit ==
    /\ q \in Templates
    /\ pc = "idle"
    /\ cursor = Str(<<>>)
    /\ formatted_q = <<>>
    /\ response = NoResponse
    /\ responses = <<>>
    /\ final_response = 0
    /\ mi = 1
    /\ heap = <<>>
    /\ err = ""
    /\ canned = <<>>
    /\ sent = <<>>
    /\ decodes = 0
    /\ calls = 0
    /\ results = <<>>

\* an exception leaves v4request_all_pages: nothing is returned
Raise(e) ==
    /\ pc' = "raised"
    /\ err' = e
    /\ results' = Append(results, [ok |-> FALSE, err |-> e, ref |-> 0, val |-> None,
                                   posts |-> Len(sent)])

\* entry of v4request_all_pages(q, path): responses = [], cursor = ""
Call ==
    /\ pc \in {"idle", "returned", "raised"}
    /\ calls < MaxCalls
    /\ calls' = calls + 1
    /\ pc' = "format"
    /\ cursor' = Str(<<>>)
    /\ responses' = <<>>
    /\ final_response' = 0
    /\ mi' = 1
    /\ formatted_q' = <<>>
    /\ response' = NoResponse
    /\ err' = ""
    /\ sent' = <<>>
    /\ decodes' = 0
    /\ UNCHANGED <<q, heap, canned, results>>

\* formatted_q = q % (pagination arguments, pageInfo fragment)
Format ==
    /\ pc = "format"
    /\ LET r == PercentFormat(q, <<PaginationArgs(cursor), PageInfoFragment>>)
       IN  IF r.err # ""
           THEN /\ Raise(r.err)
                /\ UNCHANGED <<formatted_q, sent>>
           ELSE /\ formatted_q' = r.val
                /\ pc' = "post"
                /\ UNCHANGED <<err, results, sent>>
    /\ UNCHANGED <<q, cursor, response, responses, final_response, mi, heap,
                   canned, decodes, calls>>

\* response = requests.post(V4_API_BASE, json=query(formatted_q), ...):
\* the transport serves its canned page, or the server chooses one
Post ==
    /\ pc = "post"
    /\ LET k == Len(sent) + 1
       IN  \E resp \in (IF k <= Len(canned) THEN {canned[k]} ELSE Responses(k)) :
             /\ response' = resp
             /\ canned' = (IF k <= Len(canned) THEN canned ELSE Append(canned, resp))
    /\ sent' = Append(sent, query(formatted_q))
    /\ pc' = "receive"
    /\ UNCHANGED <<q, cursor, formatted_q, responses, final_response, mi, heap,
                   err, decodes, calls, results>>

StatusOKMutAny(status) == TRUE

\* response.status_code != 200 raises
StatusOK(status) == status = HttpOK

JsonDecodeMutCached(h, k, body) ==
    IF k <= Len(h) THEN [heap |-> h, ref |-> k]
    ELSE [heap |-> Append(h, body), ref |-> Len(h) + 1]

\* response.json() of the k-th response: a new object holding the decoded body
JsonDecode(h, k, body) == [heap |-> Append(h, body), ref |-> Len(h) + 1]

ReceiveMutMergeInLoop ==
    /\ pc = "receive"
    /\ IF ~StatusOK(response.status)
       THEN /\ Raise("Exception")
            /\ UNCHANGED <<heap, responses, decodes, cursor>>
       ELSE LET d == JsonDecode(heap, Len(sent), response.body)
                c == next_page(d.heap[d.ref], FullPath)
                m == IF responses = <<>> THEN [err |-> "", heap |-> d.heap]
                     ELSE merge(d.heap, Head(responses), d.ref, FullPath)
            IN  /\ heap' = m.heap
                /\ responses' = Append(responses, d.ref)
                /\ decodes' = decodes + 1
                /\ IF IsError(c)
                   THEN /\ Raise(c.e)
                        /\ UNCHANGED cursor
                   ELSE IF m.err # ""
                   THEN /\ Raise(m.err)
                        /\ UNCHANGED cursor
                   ELSE /\ cursor' = c
                        /\ pc' = (IF ~Truthy(c) THEN "returned" ELSE "format")
                        /\ UNCHANGED err
                        /\ results' = (IF ~Truthy(c)
                                       THEN Append(results,
                                              [ok |-> TRUE, err |-> "", ref |-> Head(responses'),
                                               val |-> heap'[Head(responses')], posts |-> Len(sent)])
                                       ELSE results)
    /\ UNCHANGED <<q, formatted_q, response, final_response, mi, canned, sent, calls>>

ReceiveMutRetry ==
    /\ pc = "receive"
    /\ IF ~StatusOK(response.status)
       THEN /\ IF Len(sent) < MaxPages
               THEN pc' = "post" /\ UNCHANGED <<err, results>>
               ELSE Raise("Exception")
            /\ UNCHANGED <<heap, responses, decodes, cursor>>
       ELSE LET d == JsonDecode(heap, Len(sent), response.body)
                c == next_page(d.heap[d.ref], FullPath)
            IN  /\ heap' = d.heap
                /\ responses' = Append(responses, d.ref)
                /\ decodes' = decodes + 1
                /\ IF IsError(c)
                   THEN /\ Raise(c.e)
                        /\ UNCHANGED cursor
                   ELSE /\ cursor' = c
                        /\ pc' = (IF ~Truthy(c) THEN "after_loop" ELSE "format")
                        /\ UNCHANGED <<err, results>>
    /\ UNCHANGED <<q, formatted_q, response, final_response, mi, canned, sent, calls>>

\* status check, response.json(), responses.append, next_page, loop exit
Receive ==
    /\ pc = "receive"
    /\ IF ~StatusOK(response.status)
       THEN /\ Raise("Exception")
            /\ UNCHANGED <<heap, responses, decodes, cursor>>
       ELSE LET d == JsonDecode(heap, Len(sent), response.body)
                c == next_page(d.heap[d.ref], FullPath)
            IN  /\ heap' = d.heap
                /\ responses' = Append(responses, d.ref)
                /\ decodes' = decodes + 1
                /\ IF IsError(c)
                   THEN /\ Raise(c.e)
                        /\ UNCHANGED cursor
                   ELSE /\ cursor' = c
                        /\ pc' = (IF ~Truthy(c) THEN "after_loop" ELSE "format")
                        /\ UNCHANGED <<err, results>>
    /\ UNCHANGED <<q, formatted_q, response, final_response, mi, canned, sent, calls>>

\* final_response = responses[0]; del responses[0]
TakeFirst ==
    /\ pc = "after_loop"
    /\ final_response' = Head(responses)
    /\ responses' = Tail(responses)
    /\ mi' = 1
    /\ pc' = "merge"
    /\ UNCHANGED <<q, cursor, formatted_q, response, heap, err, canned, sent,
                   decodes, calls, results>>

\* one iteration of `for r in responses: merge(final_response, r, path)`
MergeStep ==
    /\ pc = "merge"
    /\ mi <= Len(responses)
    /\ LET m == merge(heap, final_response, responses[mi], FullPath)
       IN  IF m.err # ""
           THEN /\ Raise(m.err)
                /\ UNCHANGED <<heap, mi>>
           ELSE /\ heap' = m.heap
                /\ mi' = mi + 1
                /\ UNCHANGED <<pc, err, results>>
    /\ UNCHANGED <<q, cursor, formatted_q, response, responses, final_response,
                   canned, sent, decodes, calls>>

\* return final_response
Return ==
    /\ pc = "merge"
    /\ mi > Len(responses)
    /\ pc' = "returned"
    /\ results' = Append(results, [ok |-> TRUE, err |-> "", ref |-> final_response,
                                   val |-> heap[final_response], posts |-> Len(sent)])
    /\ UNCHANGED <<q, cursor, formatted_q, response, responses, final_response,
                   mi, heap, err, canned, sent, decodes, calls>>

AggNext == Call \/ Format \/ Post \/ Receive \/ TakeFirst \/ MergeStep \/ Return

\* ---- the bulk commands: collabs leave, invitations accept / decline ----
VARIABLES
    cmd,        \* the command that runs
    allFlag,    \* --all
    items,      \* repos / invitations the listing returned (after the filter)
    cpc,        \* position in the command
    ci,         \* position of the `for` loop over items
    log,        \* prompts answered and API requests issued, in order
    exitCode    \* exit status once the program has exited (-1: running)

cmdVars == <<cmd, allFlag, items, cpc, ci, log, exitCode>>

Commands == {"leave_collabs", "accept_invitations", "decline_invitations"}

\* the items of a run: ids 1..n in listing order
ItemLists == { [i \in 1..n |-> i] : n \in 0..MaxItems }

HttpNoContent == 204
HttpNotFound == 404

\* statuses the REST API may answer to a DELETE / PATCH
RestStatuses == {HttpNoContent, HttpNotFound}

\* leave_collab / accept_invitation / decline_invitation: the request each
\* command issues for an item
RequestFor(c, item) ==
    CASE c = "leave_collabs" ->
            [ev |-> "request", method |-> "DELETE", target |-> "collaborator", item |-> item]
      [] c = "accept_invitations" ->
            [ev |-> "request", method |-> "PATCH", target |-> "invitation", item |-> item]
      [] c = "decline_invitations" ->
            [ev |-> "request", method |-> "DELETE", target |-> "invitation", item |-> item]

\* a prompt and its answer; item 0 is the single prompt of --all
PromptEv(item, ans) == [ev |-> "prompt", item |-> item, ans |-> ans]

BadResponse(status) == status >= 400

ProceedsMutAlways(ans) == TRUE

\* `if ( inquirer.confirm(...) )`: the branch taken on the answer
Proceeds(ans) == ans

CmdIdle ==
    /\ cmd = "leave_collabs"
    /\ allFlag = FALSE
    /\ items = <<>>
    /\ cpc = "off"
    /\ ci = 1
    /\ log = <<>>
    /\ exitCode = -1

CmdInit ==
    /\ cmd \in Commands
    /\ allFlag \in BOOLEAN
    /\ items \in ItemLists
    /\ cpc = "listed"
    /\ ci = 1
    /\ log = <<>>
    /\ exitCode = -1

\* if ( len(items) == 0 ): exit(0); otherwise branch on `all`
CheckEmpty ==
    /\ cpc = "listed"
    /\ IF Len(items) = 0
       THEN /\ cpc' = "exited"
            /\ exitCode' = 0
       ELSE /\ cpc' = (IF allFlag THEN "confirm_all" ELSE "prompt")
            /\ UNCHANGED exitCode
    /\ UNCHANGED <<cmd, allFlag, items, ci, log>>

\* if ( inquirer.confirm("Are you sure you wish to continue?") )
ConfirmAll ==
    /\ cpc = "confirm_all"
    /\ \E ans \in BOOLEAN :
         /\ log' = Append(log, PromptEv(0, ans))
         /\ cpc' = (IF Proceeds(ans) THEN "request_all" ELSE "finished")
    /\ UNCHANGED <<cmd, allFlag, items, ci, exitCode>>

\* the item's API call followed by exit_on_bad_response
IssueRequest(next) ==
    /\ log' = Append(log, RequestFor(cmd, items[ci]))
    /\ \E status \in RestStatuses :
         IF BadResponse(status)
         THEN /\ cpc' = "exited"
              /\ exitCode' = 1
              /\ UNCHANGED ci
         ELSE /\ ci' = ci + 1
              /\ cpc' = next
              /\ UNCHANGED exitCode
    /\ UNCHANGED <<cmd, allFlag, items>>

\* one iteration of the loop under --all
RequestAll ==
    /\ cpc = "request_all"
    /\ ci <= Len(items)
    /\ IssueRequest("request_all")

\* if ( inquirer.confirm("Leave {}?" ...) ) ... else SKIPPED
PromptItem ==
    /\ cpc = "prompt"
    /\ ci <= Len(items)
    /\ \E ans \in BOOLEAN :
         /\ log' = Append(log, PromptEv(items[ci], ans))
         /\ IF Proceeds(ans)
            THEN /\ cpc' = "request_item"
                 /\ UNCHANGED ci
            ELSE /\ ci' = ci + 1
                 /\ UNCHANGED cpc
    /\ UNCHANGED <<cmd, allFlag, items, exitCode>>

\* the request of a confirmed item in the loop without --all
RequestItem ==
    /\ cpc = "request_item"
    /\ IssueRequest("prompt")

\* the loop is exhausted: the command returns
Finish ==
    /\ cpc \in {"request_all", "prompt"}
    /\ ci > Len(items)
    /\ cpc' = "finished"
    /\ UNCHANGED <<cmd, allFlag, items, ci, log, exitCode>>

CmdNext == CheckEmpty \/ ConfirmAll \/ RequestAll \/ PromptItem \/ RequestItem \/ Finish

\* ---- v3request_all_pages: REST listing that follows the `next` links ----
VARIABLES
    v3data,        \* the `data` argument (query parameters), None when absent
    v3pc,          \* position in v3request_all_pages
    v3response,    \* response of the latest requests.get
    fullresponse,  \* fullresponse
    v3reqs,        \* the GET requests issued, in order
    v3served,      \* the responses received, in order
    v3decodes,     \* response.json() calls
    v3err          \* the exception that ended the call

v3Vars == <<v3data, v3pc, v3response, fullresponse, v3reqs, v3served, v3decodes, v3err>>

NoLink == ""

\* urls the server may put in a `next` link
Links == {"next_a", "next_b"}

\* "{}{}".format(V3_API_BASE, q)
FirstUrl == "V3_API_BASE/user/repos"

\* {"affiliation": "collaborator"} (get_collabs) or no parameters
V3Params == {None, Dict(<<Entry("affiliation", Str(<<"collaborator">>))>>)}

V3Items(k, n) ==
    [i \in 1..n |-> Dict(<<Entry("full_name", Str(<<"item", ToString(k), ToString(i)>>))>>)]

V3ErrorBody == Dict(<<Entry("message", Str(<<"Not Found">>)),
                      Entry("documentation_url", Str(<<"docs">>))>>)

\* what the REST API may answer to the k-th GET: a list, with a `next` link
\* while it has further pages, or an error status with an error object and
\* no links
V3Responses(k) ==
    { [status |-> HttpOK, body |-> List(V3Items(k, n)), next |-> l] :
        n \in 0..MaxLen,
        l \in {NoLink} \cup (IF k < MaxV3Pages THEN Links ELSE {}) }
    \cup {[status |-> HttpNotFound, body |-> V3ErrorBody, next |-> NoLink]}

V3NoResponse == [status |-> 0, body |-> None, next |-> NoLink]

\* the first GET: the url of the query, with params=data
FirstRequest(data) == [url |-> FirstUrl, params |-> data]

NextRequestMutParams(link, data) == [url |-> link, params |-> data]

\* requests.get(response.links['next']['url'], headers=v3headers)
NextRequest(link, data) == [url |-> link, params |-> None]

\* 'next' in response.links.keys()
HasNextLink(r) == r.next # NoLink

\* fullresponse.extend(b): only a list has extend; any iterable is appended
Extend(full, b) ==
    IF full.kind # "list" THEN [err |-> "AttributeError", val |-> full]
    ELSE IF b.kind \in {"list", "str", "dict"}
    THEN [err |-> "", val |-> List(full.items \o IterItems(b))]
    ELSE [err |-> "TypeError", val |-> full]

V3Init ==
    /\ v3data \in V3Params
    /\ v3pc = "start"
    /\ v3response = V3NoResponse
    /\ fullresponse = None
    /\ v3reqs = <<>>
    /\ v3served = <<>>
    /\ v3decodes = 0
    /\ v3err = ""

V3Idle ==
    /\ v3data = None
    /\ v3pc = "off"
    /\ v3response = V3NoResponse
    /\ fullresponse = None
    /\ v3reqs = <<>>
    /\ v3served = <<>>
    /\ v3decodes = 0
    /\ v3err = ""

\* response = requests.get(url of q, params=data); fullresponse = response.json()
V3First ==
    /\ v3pc = "start"
    /\ \E resp \in V3Responses(1) :
         /\ v3response' = resp
         /\ v3served' = Append(v3served, resp)
         /\ fullresponse' = resp.body
    /\ v3reqs' = Append(v3reqs, FirstRequest(v3data))
    /\ v3decodes' = v3decodes + 1
    /\ v3pc' = "loop"
    /\ UNCHANGED <<v3data, v3err>>

\* one iteration of `while 'next' in response.links.keys()`
V3Follow ==
    /\ v3pc = "loop"
    /\ HasNextLink(v3response)
    /\ v3reqs' = Append(v3reqs, NextRequest(v3response.next, v3data))
    /\ v3decodes' = v3decodes + 1
    /\ \E resp \in V3Responses(Len(v3served) + 1) :
         /\ v3response' = resp
         /\ v3served' = Append(v3served, resp)
         /\ LET e == Extend(fullresponse, resp.body)
            IN  IF e.err # ""
                THEN /\ v3pc' = "raised"
                     /\ v3err' = e.err
                     /\ UNCHANGED fullresponse
                ELSE /\ fullresponse' = e.val
                     /\ UNCHANGED <<v3pc, v3err>>
    /\ UNCHANGED v3data

\* return fullresponse
V3Return ==
    /\ v3pc = "loop"
    /\ ~HasNextLink(v3response)
    /\ v3pc' = "returned"
    /\ UNCHANGED <<v3data, v3response, fullresponse, v3reqs, v3served, v3decodes, v3err>>

V3Next == V3First \/ V3Follow \/ V3Return

\* ---- repos clone (clone_repos) ----
VARIABLES
    repos,       \* repos: what get_repos returned (after the filter)
    into,        \* the `into` argument, NoInto when not given
    clpc,        \* position in clone_repos
    repo_idxs,   \* repo_idxs
    cli,         \* position of `for i in repo_idxs`
    cloneCmds    \* the git clone commands run, in order

cloneVars == <<repos, into, clpc, repo_idxs, cli, cloneCmds>>

NoInto == ""

\* a repository node as get_repos returns it
RepoNode(i) == [full_name |-> ToString(i), html_url |-> ToString(i)]

RepoLists == { [i \in 1..n |-> RepoNode(i)] : n \in 0..MaxRepos }

\* get_repo_idx(repo_url): index of the first repo with that url, -1 when
\* there is none (indexes count from 1 here, 0 in the source)
get_repo_idx(rs, url) ==
    IF \E i \in 1..Len(rs) : rs[i].html_url = url
    THEN CHOOSE i \in 1..Len(rs) :
           /\ rs[i].html_url = url
           /\ \A j \in 1..(i - 1) : rs[j].html_url # url
    ELSE -1

\* the members of a set of indexes in increasing order
RECURSIVE InOrder(_)
InOrder(S) ==
    IF S = {} THEN <<>>
    ELSE LET lo == CHOOSE x \in S : \A y \in S : x <= y
         IN  <<lo>> \o InOrder(S \ {lo})

\* what the user may pick among the choices: exactly one url with
\* inquirer.list_input, any subset in list order with inquirer.checkbox
ListInputAnswers(rs) == { <<rs[i].html_url>> : i \in 1..Len(rs) }
CheckboxAnswers(rs) ==
    { [k \in 1..Len(InOrder(S)) |-> rs[InOrder(S)[k]].html_url] : S \in SUBSET (1..Len(rs)) }

PromptAnswersMutCheckbox(rs, dir) == CheckboxAnswers(rs)

\* if ( into ): list_input ... else: checkbox
PromptAnswers(rs, dir) ==
    IF dir # NoInto THEN ListInputAnswers(rs) ELSE CheckboxAnswers(rs)

\* "git clone {} {}".format(repos[i]['html_url'], into if into else "")
CloneCmd(rs, i, dir) == [url |-> rs[i].html_url, into |-> dir]

CloneInit ==
    /\ repos \in RepoLists
    /\ into \in {NoInto, "target"}
    /\ clpc = "start"
    /\ repo_idxs = <<>>
    /\ cli = 1
    /\ cloneCmds = <<>>

CloneIdle ==
    /\ repos = <<>>
    /\ into = NoInto
    /\ clpc = "off"
    /\ repo_idxs = <<>>
    /\ cli = 1
    /\ cloneCmds = <<>>

\* if len(repos) == 0: return; repo_idxs = [0]; if len(repos) > 1: ...
CloneCheck ==
    /\ clpc = "start"
    /\ IF Len(repos) = 0
       THEN clpc' = "returned" /\ UNCHANGED repo_idxs
       ELSE /\ repo_idxs' = <<1>>
            /\ clpc' = (IF Len(repos) > 1 THEN "choose" ELSE "loop")
    /\ UNCHANGED <<repos, into, cli, cloneCmds>>

\* the prompt and repo_idxs built from its answer
CloneChoose ==
    /\ clpc = "choose"
    /\ \E chosen \in PromptAnswers(repos, into) :
         repo_idxs' = [k \in 1..Len(chosen) |-> get_repo_idx(repos, chosen[k])]
    /\ clpc' = "loop"
    /\ UNCHANGED <<repos, into, cli, cloneCmds>>

\* one iteration of `for i in repo_idxs`: os.system(git clone ...)
CloneRun ==
    /\ clpc = "loop"
    /\ cli <= Len(repo_idxs)
    /\ cloneCmds' = Append(cloneCmds, CloneCmd(repos, repo_idxs[cli], into))
    /\ cli' = cli + 1
    /\ UNCHANGED <<repos, into, clpc, repo_idxs>>

CloneFinish ==
    /\ clpc = "loop"
    /\ cli > Len(repo_idxs)
    /\ clpc' = "returned"
    /\ UNCHANGED <<repos, into, repo_idxs, cli, cloneCmds>>

CloneNext == CloneCheck \/ CloneChoose \/ CloneRun \/ CloneFinish

\* ---- batch_get ----
VARIABLES
    ndirs,     \* number of subdirectories of the working directory
    bpc,       \* position in batch_get
    bdirs,     \* what batch_get found in each subdirectory it has processed
    vcs        \* pull / clone commands run, in order, with their subdirectory

batchVars == <<ndirs, bpc, bdirs, vcs>>

\* contents a username file may have (symbols; "\n" is a line break)
FileContents == { <<>>, <<"\n">>, <<"alice", "\n">>, <<"ghost", "\n">> }

\* github_login_file.read().replace('\n', '')
StripNewlines(content) == SelectSeq(content, LAMBDA c : c # "\n")

\* user_exists(user): the platform knows no user "ghost"
user_exists(user) == user # <<"ghost">>

\* get_repos for the user: an exception, or a list of up to two repos
ListingFailed == -1
RepoOutcomes == {ListingFailed} \cup (0..2)

\* what a subdirectory may hold when batch_get looks at it; `pick` is the
\* user's answer should clone_repos ask which repository to clone
DirStates ==
    { st \in [hasFile : BOOLEAN, content : FileContents, targetExists : BOOLEAN,
              nrepos : RepoOutcomes, pick : 1..2] :
        /\ ~st.hasFile => st.content = <<>>
        /\ st.nrepos < 2 => st.pick = 1 }

Pull(d) == [dir |-> d, kind |-> "pull", url |-> ""]
Clone(d, url) == [dir |-> d, kind |-> "clone", url |-> url]

\* clone_repos(user, subdir_target, ...) called with `into` set: nothing
\* for an empty list, the only repo, or the one picked with list_input
CloneInto(d, st) ==
    LET rs == [i \in 1..st.nrepos |-> RepoNode(i)]
    IN  IF st.nrepos = 0 THEN <<>>
        ELSE IF st.nrepos = 1 THEN <<Clone(d, CloneCmd(rs, 1, "target").url)>>
        ELSE <<Clone(d, CloneCmd(rs, get_repo_idx(rs, rs[st.pick].html_url), "target").url)>>

BatchDirStepMutBreak(d, st) ==
    IF ~st.hasFile THEN [acts |-> <<>>, stop |-> TRUE]
    ELSE IF StripNewlines(st.content) = <<>> THEN [acts |-> <<>>, stop |-> TRUE]
    ELSE IF ~user_exists(StripNewlines(st.content)) THEN [acts |-> <<>>, stop |-> TRUE]
    ELSE IF st.targetExists THEN [acts |-> <<Pull(d)>>, stop |-> FALSE]
    ELSE IF st.nrepos = ListingFailed THEN [acts |-> <<>>, stop |-> TRUE]
    ELSE [acts |-> CloneInto(d, st), stop |-> FALSE]

\* the body of `for d in subdirs`: the commands it runs and whether the
\* loop ends there (an exception out of get_repos ends batch_get)
BatchDirStep(d, st) ==
    IF ~st.hasFile THEN [acts |-> <<>>, stop |-> FALSE]
    ELSE IF StripNewlines(st.content) = <<>> THEN [acts |-> <<>>, stop |-> FALSE]
    ELSE IF ~user_exists(StripNewlines(st.content)) THEN [acts |-> <<>>, stop |-> FALSE]
    ELSE IF st.targetExists THEN [acts |-> <<Pull(d)>>, stop |-> FALSE]
    ELSE IF st.nrepos = ListingFailed THEN [acts |-> <<>>, stop |-> TRUE]
    ELSE [acts |-> CloneInto(d, st), stop |-> FALSE]

BatchInit ==
    /\ ndirs \in 0..MaxDirs
    /\ bpc = "loop"
    /\ bdirs = <<>>
    /\ vcs = <<>>

BatchIdle ==
    /\ ndirs = 0
    /\ bpc = "off"
    /\ bdirs = <<>>
    /\ vcs = <<>>

\* one iteration of `for d in subdirs`
BatchDir ==
    /\ bpc = "loop"
    /\ Len(bdirs) < ndirs
    /\ \E st \in DirStates :
         LET d == Len(bdirs) + 1
             r == BatchDirStep(d, st)
         IN  /\ bdirs' = Append(bdirs, st)
             /\ vcs' = vcs \o r.acts
             /\ bpc' = (IF r.stop THEN "stopped" ELSE "loop")
    /\ UNCHANGED ndirs

\* the loop is exhausted
BatchFinish ==
    /\ bpc = "loop"
    /\ Len(bdirs) = ndirs
    /\ bpc' = "finished"
    /\ UNCHANGED <<ndirs, bdirs, vcs>>

BatchNext == BatchDir \/ BatchFinish

\* ---- two invocations of v4request_all_pages, steps interleaved ----
VARIABLES
    v4headers,  \* the module-level v4headers
    pheap,      \* decoded documents of both invocations, by reference
    ppc,        \* per invocation: position in v4request_all_pages
    pcursor,    \* per invocation: cursor
    pfq,        \* per invocation: formatted_q
    presponse,  \* per invocation: response
    presp,      \* per invocation: responses
    pfinal,     \* per invocation: final_response (0: unset)
    pmi,        \* per invocation: position of `for r in responses`
    perr,       \* per invocation: the exception that ended it
    psent,      \* per invocation: requests posted, with the headers sent
    pserved     \* per invocation: responses received

parVars == <<v4headers, pheap, ppc, pcursor, pfq, presponse, presp, pfinal, pmi,
             perr, psent, pserved>>

Procs == {1, 2}

\* set_api_token(token): v4headers['Authorization'] = "bearer " + token
AuthHeaders == Dict(<<Entry("Authorization", Str(<<"bearer ", "token">>))>>)

\* the template get_repos passes
RepoTemplate == <<Lit("repositories"), Marker, Lit("nodes"), Marker>>

ParNodes(p, k, n) ==
    [i \in 1..n |-> Dict(<<Entry("full_name",
                                 Str(<<"query", ToString(p), ToString(k), ToString(i)>>))>>)]

\* what the server may answer to the k-th request of invocation p (the two
\* invocations run independent queries, so their nodes differ)
ParResponses(p, k) ==
    {[status |-> HttpServerError, body |-> ErrorDoc]}
    \cup { [status |-> HttpOK, body |-> PageDoc(t, pi)] :
             t \in {<<>>} \cup { <<Entry("items", List(ParNodes(p, k, n)))>> : n \in 1..MaxLen },
             pi \in { <<Entry("pageInfo",
                              Dict(<<Entry("endCursor", c), Entry("hasNextPage", Bool(h))>>))>> :
                        <<h, c>> \in {<<FALSE, None>>}
                            \cup (IF k < MaxParPages THEN {<<TRUE, CursorOf(k)>>} ELSE {}) } }

LocalMutGlobal(p) == 1

\* `responses = []` is a local of the invocation: each invocation has its own
Local(p) == p

ParInit ==
    /\ v4headers = AuthHeaders
    /\ pheap = <<>>
    /\ ppc = [p \in Procs |-> "format"]
    /\ pcursor = [p \in Procs |-> Str(<<>>)]
    /\ pfq = [p \in Procs |-> <<>>]
    /\ presponse = [p \in Procs |-> NoResponse]
    /\ presp = [p \in Procs |-> <<>>]
    /\ pfinal = [p \in Procs |-> 0]
    /\ pmi = [p \in Procs |-> 1]
    /\ perr = [p \in Procs |-> ""]
    /\ psent = [p \in Procs |-> <<>>]
    /\ pserved = [p \in Procs |-> <<>>]

ParIdle ==
    /\ v4headers = AuthHeaders
    /\ pheap = <<>>
    /\ ppc = [p \in Procs |-> "off"]
    /\ pcursor = [p \in Procs |-> Str(<<>>)]
    /\ pfq = [p \in Procs |-> <<>>]
    /\ presponse = [p \in Procs |-> NoResponse]
    /\ presp = [p \in Procs |-> <<>>]
    /\ pfinal = [p \in Procs |-> 0]
    /\ pmi = [p \in Procs |-> 1]
    /\ perr = [p \in Procs |-> ""]
    /\ psent = [p \in Procs |-> <<>>]
    /\ pserved = [p \in Procs |-> <<>>]

PRaise(p, e) ==
    /\ ppc' = [ppc EXCEPT ![p] = "raised"]
    /\ perr' = [perr EXCEPT ![p] = e]

\* formatted_q = q % (...)
PFormat(p) ==
    /\ ppc[p] = "format"
    /\ LET r == PercentFormat(RepoTemplate, <<PaginationArgs(pcursor[p]), PageInfoFragment>>)
       IN  IF r.err # ""
           THEN PRaise(p, r.err) /\ UNCHANGED pfq
           ELSE /\ pfq' = [pfq EXCEPT ![p] = r.val]
                /\ ppc' = [ppc EXCEPT ![p] = "post"]
                /\ UNCHANGED perr
    /\ UNCHANGED <<v4headers, pheap, pcursor, presponse, presp, pfinal, pmi, psent, pserved>>

\* response = requests.post(V4_API_BASE, json=query(formatted_q), headers=v4headers)
PPost(p) ==
    /\ ppc[p] = "post"
    /\ \E resp \in ParResponses(p, Len(psent[p]) + 1) :
         /\ presponse' = [presponse EXCEPT ![p] = resp]
         /\ pserved' = [pserved EXCEPT ![p] = Append(@, resp)]
    /\ psent' = [psent EXCEPT ![p] = Append(@, [body |-> query(pfq[p]), headers |-> v4headers])]
    /\ ppc' = [ppc EXCEPT ![p] = "receive"]
    /\ UNCHANGED <<v4headers, pheap, pcursor, pfq, presp, pfinal, pmi, perr>>

\* status check, response.json(), responses.append, next_page, loop exit
PReceive(p) ==
    /\ ppc[p] = "receive"
    /\ IF ~StatusOK(presponse[p].status)
       THEN /\ PRaise(p, "Exception")
            /\ UNCHANGED <<pheap, presp, pcursor>>
       ELSE LET d == JsonDecode(pheap, Len(pheap) + 1, presponse[p].body)
                c == next_page(d.heap[d.ref], FullPath)
            IN  /\ pheap' = d.heap
                /\ presp' = [presp EXCEPT ![Local(p)] = Append(@, d.ref)]
                /\ IF IsError(c)
                   THEN PRaise(p, c.e) /\ UNCHANGED pcursor
                   ELSE /\ pcursor' = [pcursor EXCEPT ![p] = c]
                        /\ ppc' = [ppc EXCEPT ![p] = IF ~Truthy(c) THEN "after_loop" ELSE "format"]
                        /\ UNCHANGED perr
    /\ UNCHANGED <<v4headers, pfq, presponse, pfinal, pmi, psent, pserved>>

\* final_response = responses[0]; del responses[0]
PTakeFirst(p) ==
    /\ ppc[p] = "after_loop"
    /\ pfinal' = [pfinal EXCEPT ![p] = Head(presp[Local(p)])]
    /\ presp' = [presp EXCEPT ![Local(p)] = Tail(@)]
    /\ pmi' = [pmi EXCEPT ![p] = 1]
    /\ ppc' = [ppc EXCEPT ![p] = "merge"]
    /\ UNCHANGED <<v4headers, pheap, pcursor, pfq, presponse, perr, psent, pserved>>

\* one iteration of `for r in responses: merge(final_response, r, path)`
PMergeStep(p) ==
    /\ ppc[p] = "merge"
    /\ pmi[p] <= Len(presp[Local(p)])
    /\ LET m == merge(pheap, pfinal[p], presp[Local(p)][pmi[p]], FullPath)
       IN  IF m.err # ""
           THEN PRaise(p, m.err) /\ UNCHANGED <<pheap, pmi>>
           ELSE /\ pheap' = m.heap
                /\ pmi' = [pmi EXCEPT ![p] = @ + 1]
                /\ UNCHANGED <<ppc, perr>>
    /\ UNCHANGED <<v4headers, pcursor, pfq, presponse, presp, pfinal, psent, pserved>>

\* return final_response
PReturn(p) ==
    /\ ppc[p] = "merge"
    /\ pmi[p] > Len(presp[Local(p)])
    /\ ppc' = [ppc EXCEPT ![p] = "returned"]
    /\ UNCHANGED <<v4headers, pheap, pcursor, pfq, presponse, presp, pfinal, pmi,
                   perr, psent, pserved>>

ParNext ==
    \E p \in Procs :
        PFormat(p) \/ PPost(p) \/ PReceive(p) \/ PTakeFirst(p) \/ PMergeStep(p) \/ PReturn(p)

AggIdle ==
    /\ AggInit
    /\ q = <<Lit("repositories"), Marker, Lit("nodes"), Marker>>

vars == <<aggVars, cmdVars, v3Vars, cloneVars, batchVars, parVars>>

Init == AggInit /\ CmdIdle /\ V3Idle /\ CloneIdle /\ BatchIdle /\ ParIdle

Next == AggNext /\ UNCHANGED <<cmdVars, v3Vars, cloneVars, batchVars, parVars>>

\* the aggregation, called up to MaxCalls times against one canned server
Spec == Init /\ [][Next]_vars

InitCmd == CmdInit /\ AggIdle /\ V3Idle /\ CloneIdle /\ BatchIdle /\ ParIdle

NextCmd == CmdNext /\ UNCHANGED <<aggVars, v3Vars, cloneVars, batchVars, parVars>>

\* one run of a bulk command
SpecCmd == InitCmd /\ [][NextCmd]_vars

InitV3 == V3Init /\ AggIdle /\ CmdIdle /\ CloneIdle /\ BatchIdle /\ ParIdle

NextV3 == V3Next /\ UNCHANGED <<aggVars, cmdVars, cloneVars, batchVars, parVars>>

\* one call of v3request_all_pages
SpecV3 == InitV3 /\ [][NextV3]_vars

InitClone == CloneInit /\ AggIdle /\ CmdIdle /\ V3Idle /\ BatchIdle /\ ParIdle

NextClone == CloneNext /\ UNCHANGED <<aggVars, cmdVars, v3Vars, batchVars, parVars>>

\* one run of repos clone, from the list get_repos returned
SpecClone == InitClone /\ [][NextClone]_vars

InitBatch == BatchInit /\ AggIdle /\ CmdIdle /\ V3Idle /\ CloneIdle /\ ParIdle

NextBatch == BatchNext /\ UNCHANGED <<aggVars, cmdVars, v3Vars, cloneVars, parVars>>

\* one run of batch_get
SpecBatch == InitBatch /\ [][NextBatch]_vars

InitPar == ParInit /\ AggIdle /\ CmdIdle /\ V3Idle /\ CloneIdle /\ BatchIdle

NextPar == ParNext /\ UNCHANGED <<aggVars, cmdVars, v3Vars, cloneVars, batchVars>>

\* two invocations of v4request_all_pages, interleaved step by step
SpecPar == InitPar /\ [][NextPar]_vars

\* ---- observations on the pages served in the current call ----
Done == pc \in {"returned", "raised"}

Served == SubSeq(canned, 1, Len(sent))

PageInfoOf(r) == Walk(r.body, PageInfoKeys(FullPath))

PageInfoResolves(r) ==
    /\ ~IsError(GetItem(PageInfoOf(r), "hasNextPage"))
    /\ ~IsError(GetItem(PageInfoOf(r), "endCursor"))

PageHasNext(r) == PageInfoResolves(r) /\ Truthy(GetItem(PageInfoOf(r), "hasNextPage"))

PageEndCursor(r) == GetItem(PageInfoOf(r), "endCursor")

PageTarget(r) == Walk(r.body, FullPath)

TargetIsList(r) == PageTarget(r).kind = "list"

RECURSIVE ConcatTargets(_)
ConcatTargets(pages) ==
    IF pages = <<>> THEN <<>>
    ELSE PageTarget(Head(pages)).items \o ConcatTargets(Tail(pages))

RECURSIVE SumSizes(_)
SumSizes(pages) ==
    IF pages = <<>> THEN 0
    ELSE Len(PageTarget(Head(pages)).items) + SumSizes(Tail(pages))

\* N >= 1 successful pages with list targets, hasNextPage true with a
\* non-empty endCursor on all but the last, false on the last
GoodSequence ==
    /\ Len(sent) >= 1
    /\ \A k \in 1..Len(sent) :
         /\ canned[k].status = HttpOK
         /\ TargetIsList(canned[k])
         /\ PageInfoResolves(canned[k])
         /\ k < Len(sent) => /\ PageHasNext(canned[k])
                             /\ PageEndCursor(canned[k]).kind = "str"
                             /\ PageEndCursor(canned[k]).s # <<>>
         /\ k = Len(sent) => ~PageHasNext(canned[k])

ReturnedTarget == get(heap[final_response], FullPath)

\* C1: after N good pages the call returns, and the returned document's
\* target array is the concatenation of the pages' arrays in fetch order,
\* of length s1 + ... + sN.
C1_Concatenation ==
    (Done /\ GoodSequence) =>
        /\ pc = "returned"
        /\ ReturnedTarget = List(ConcatTargets(Served))
        /\ Len(ReturnedTarget.items) = SumSizes(Served)

C1_Witness ==
    /\ pc = "returned"
    /\ GoodSequence
    /\ Len(sent) = 3
    /\ \A k \in 1..3 : Len(PageTarget(canned[k]).items) >= 1
    /\ Len(ReturnedTarget.items) >= 4

\* C2: a non-success status on the k-th response raises after exactly k
\* transport calls: the failing body is not decoded and no later page is
\* requested.
C2_StatusFailureStops ==
    \A k \in 1..Len(sent) :
        canned[k].status # HttpOK =>
            /\ k = Len(sent)
            /\ pc \in {"receive", "raised"}
            /\ decodes = k - 1
            /\ Len(responses) = k - 1
            /\ pc = "raised" => (err = "Exception" /\ results[Len(results)].posts = k)

C2_Witness ==
    /\ pc = "raised"
    /\ err = "Exception"
    /\ Len(sent) = 2
    /\ canned[2].status = HttpServerError
    /\ decodes = 1

\* C3 (as claimed): a returned document implies that in every page of the
\* call the target path resolved to a list and the pageInfo sibling
\* resolved -- a missing or non-list target is never tolerated.
C3_UnresolvedTargetIsFatal ==
    pc = "returned" =>
        \A k \in 1..Len(sent) :
            /\ ~IsError(PageTarget(canned[k]))
            /\ TargetIsList(canned[k])
            /\ PageInfoResolves(canned[k])

\* C4 (as claimed): no request follows a page with hasNextPage false, and
\* the loop is never left after a page whose hasNextPage is true.
C4_StopsExactlyOnNoNextPage ==
    /\ \A k \in 1..(Len(sent) - 1) : PageHasNext(canned[k])
    /\ (pc \in {"after_loop", "merge", "returned"}) => ~PageHasNext(canned[Len(sent)])

AfterTokens(req) == SelectSeq(req, LAMBDA t : t.t = "after")
FirstTokens(req) == SelectSeq(req, LAMBDA t : t.t = "first")
PageInfoTokens(req) == SelectSeq(req, LAMBDA t : t.t = "pageInfo")

\* C5: the first request has no `after`; request k+1 has `after` equal to
\* the endCursor of response k; every request carries the same page-size
\* directive and the same pageInfo fragment.
C5_CursorChain ==
    \A k \in 1..Len(sent) :
        /\ k = 1 => AfterTokens(sent[k]) = <<>>
        /\ k > 1 => AfterTokens(sent[k]) = <<Tok("after", PageEndCursor(canned[k - 1]).s)>>
        /\ FirstTokens(sent[k]) = <<Tok("first", <<"50">>)>>
        /\ PageInfoTokens(sent[k]) = <<Tok("pageInfo", <<"endCursor", "hasNextPage">>)>>

C5_Witness ==
    /\ Len(sent) = 3
    /\ PageEndCursor(canned[1]) # PageEndCursor(canned[2])
    /\ AfterTokens(sent[3]) = <<Tok("after", <<"cursor", "2">>)>>

FirstIsLast ==
    /\ Len(sent) >= 1
    /\ canned[1].status = HttpOK
    /\ PageInfoResolves(canned[1])
    /\ ~PageHasNext(canned[1])

\* C6: when the first response reports hasNextPage false there is exactly
\* one transport call, no error, and the returned document is that page's
\* document unchanged (an empty target array included).
C6_SinglePage ==
    FirstIsLast =>
        /\ Len(sent) = 1
        /\ pc # "raised"
        /\ pc = "returned" => /\ heap[final_response] = canned[1].body
                              /\ results[Len(results)].posts = 1

C6_Witness ==
    /\ pc = "returned"
    /\ FirstIsLast
    /\ ReturnedTarget = List(<<>>)
    /\ Len(sent) = 1

\* C7 (as claimed): a document is returned only if every page request
\* succeeded and every page resolved (pageInfo and target path).
C7_AllOrNothing ==
    pc = "returned" =>
        \A k \in 1..Len(sent) :
            /\ canned[k].status = HttpOK
            /\ PageInfoResolves(canned[k])
            /\ ~IsError(PageTarget(canned[k]))

\* C8: a template whose number of markers is not two fails at the first
\* formatting attempt with no transport call.
C8_MalformedTemplate ==
    CountMarkers(q) # 2 =>
        /\ sent = <<>>
        /\ canned = <<>>
        /\ pc \in {"idle", "format", "raised"}
        /\ pc = "raised" => (err = "TypeError" /\ results[Len(results)].posts = 0)

C8_Witness ==
    /\ CountMarkers(q) = 3
    /\ pc = "raised"
    /\ err = "TypeError"
    /\ sent = <<>>

\* C10: two calls with the same template and path against the same canned
\* page sequence end the same way, and their returned documents are
\* deep-equal (the earlier result is not changed by the later call either).
C10_RepeatableCalls ==
    \A i, j \in 1..Len(results) :
        /\ results[i].ok = results[j].ok
        /\ results[i].err = results[j].err
        /\ results[i].posts = results[j].posts
        /\ results[i].ok => /\ results[i].val = results[j].val
                            /\ heap[results[i].ref] = heap[results[j].ref]
                            /\ heap[results[i].ref] = results[i].val

C10_Witness ==
    /\ Len(results) = 2
    /\ results[1].ok /\ results[2].ok
    /\ results[2].posts = 3
    /\ results[1].ref # results[2].ref
    /\ get(results[2].val, FullPath).kind = "list"
    /\ Len(get(results[2].val, FullPath).items) >= 3

Requests == { i \in 1..Len(log) : log[i].ev = "request" }
Prompts == { i \in 1..Len(log) : log[i].ev = "prompt" }

\* C9: every destructive request follows a prompt answered yes that covers
\* its item; with --all a declined confirmation leaves zero requests;
\* without --all a declined item gets no request and the items after it
\* are still prompted.
C9_ConfirmBeforeDestructive ==
    /\ \A i \in Requests :
         /\ log[i] = RequestFor(cmd, log[i].item)
         /\ \E j \in 1..(i - 1) :
              /\ log[j].ev = "prompt"
              /\ log[j].ans
              /\ log[j].item = (IF allFlag THEN 0 ELSE log[i].item)
    /\ allFlag => /\ Cardinality(Prompts) <= 1
                  /\ (\E j \in Prompts : ~log[j].ans) => Requests = {}
    /\ ~allFlag =>
         /\ \A j \in Prompts : ~log[j].ans => \A i \in Requests : log[i].item # log[j].item
         /\ cpc = "finished" =>
              \A n \in 1..Len(items) : \E j \in Prompts : log[j].item = items[n]

C9_Witness ==
    /\ ~allFlag
    /\ cpc = "finished"
    /\ Len(items) = 3
    /\ \E j \in Prompts : log[j].item = 1 /\ ~log[j].ans
    /\ \E i \in Requests : log[i].item = 2
    /\ \A i \in Requests : log[i].item # 1

\* ---- order of merging, frame of the merge, order of requests ----
\* the heap object the pages are merged into: responses[0] until it is
\* taken out of the list, final_response afterwards
Accumulator == IF final_response # 0 THEN final_response ELSE Head(responses)

\* C13 (as claimed): when the request for page k+1 (k >= 2) has been
\* issued, the accumulator's target array already holds pages 1..k, which
\* all resolved to lists.
C13_MergeInsideLoop ==
    (pc = "receive" /\ Len(sent) >= 3) =>
        /\ \A k \in 1..(Len(sent) - 1) : TargetIsList(canned[k])
        /\ get(heap[Accumulator], FullPath)
               = List(ConcatTargets(SubSeq(canned, 1, Len(sent) - 1)))

\* C13 (amended): merging is done after the loop.  While pages are being
\* requested every decoded page is still as it was decoded; in the merge
\* phase no request is issued any more and, for list targets, the
\* accumulator holds pages 1..mi after mi - 1 merges; an error raised by a
\* merge comes only after the last page was requested.
C13_MergeAfterLoop ==
    /\ pc \in {"format", "post", "receive", "after_loop"} =>
         \A i \in 1..Len(responses) : heap[responses[i]] = canned[i].body
    /\ pc = "merge" =>
         /\ Len(sent) = Len(responses) + 1
         /\ ~Truthy(next_page(canned[Len(sent)].body, FullPath))
         /\ (\A k \in 1..Len(sent) : TargetIsList(canned[k])) =>
                get(heap[final_response], FullPath)
                    = List(ConcatTargets(SubSeq(canned, 1, mi)))
    /\ (pc = "raised" /\ final_response # 0) =>
         /\ err \in {"KeyError", "TypeError"}
         /\ ~Truthy(next_page(canned[Len(sent)].body, FullPath))
         /\ decodes = Len(sent)

\* page 2 does not resolve, page 3 was requested all the same, and the
\* call fails in the merge
C13_Witness ==
    /\ pc = "raised"
    /\ final_response # 0
    /\ Len(sent) = 3
    /\ IsError(PageTarget(canned[2]))
    /\ TargetIsList(canned[1])

\* two documents are equal everywhere except, possibly, at the key path
RECURSIVE EqualOutside(_, _, _)
EqualOutside(a, b, keys) ==
    IF keys = <<>> THEN TRUE
    ELSE IF a.kind # "dict" \/ b.kind # "dict" THEN a = b
    ELSE /\ Len(a.items) = Len(b.items)
         /\ \A i \in 1..Len(a.items) :
              /\ a.items[i].k = b.items[i].k
              /\ IF a.items[i].k = Head(keys)
                 THEN EqualOutside(a.items[i].v, b.items[i].v, Tail(keys))
                 ELSE a.items[i].v = b.items[i].v

\* C14: the returned document is the first page's document with at most
\* its target array changed (pageInfo and envelope as decoded), and the
\* documents of pages 2..N are as decoded.
C14_MergeFrame ==
    pc = "returned" =>
        /\ EqualOutside(heap[final_response], canned[1].body, FullPath)
        /\ Walk(heap[final_response], PageInfoKeys(FullPath)) = PageInfoOf(canned[1])
        /\ \A i \in 1..Len(responses) : heap[responses[i]] = canned[i + 1].body

C14_Witness ==
    /\ pc = "returned"
    /\ Len(sent) = 3
    /\ GoodSequence
    /\ heap[final_response] # canned[1].body
    /\ PageInfoOf(canned[1]) # PageInfoOf(canned[3])

\* C15: requests are sequential and not repeated: request k+1 is issued
\* only after response k was decoded and announced a further page, no
\* request is posted twice, nothing is posted after a failure, and a call
\* that returns has made exactly as many posts as it has pages.
C15_SequentialNoRetry ==
    /\ calls >= 1 => Len(sent) <= decodes + 1
    /\ pc = "receive" => decodes = Len(sent) - 1
    /\ \A k \in 1..(Len(sent) - 1) :
         /\ canned[k].status = HttpOK
         /\ PageInfoResolves(canned[k])
         /\ Truthy(next_page(canned[k].body, FullPath))
    /\ \A i, j \in 1..Len(sent) : i # j => sent[i] # sent[j]
    /\ Done => results[Len(results)].posts = Len(sent)
    /\ pc = "returned" => /\ decodes = Len(sent)
                          /\ Len(responses) + 1 = Len(sent)
                          /\ Len(sent) <= Len(canned)

C15_Witness ==
    /\ pc = "returned"
    /\ Len(sent) = 3
    /\ decodes = 3
    /\ calls = 2

\* C16 (as claimed): the call stops requesting only when the server has
\* reported no further page (or a request failed): a loop that was left
\* without an error has seen a page with hasNextPage false.
C16_KeepsRequesting ==
    pc \in {"after_loop", "merge", "returned"} =>
        \E k \in 1..Len(sent) : PageInfoResolves(canned[k]) /\ ~PageHasNext(canned[k])

\* ---- REST listing ----
RECURSIVE ConcatBodies(_)
ConcatBodies(rs) ==
    IF rs = <<>> THEN <<>> ELSE Head(rs).body.items \o ConcatBodies(Tail(rs))

AllLists(rs) == \A k \in 1..Len(rs) : rs[k].body.kind = "list"

\* C19: one GET per `next` link, in link order, the caller's parameters only
\* on the first; the call ends exactly when a response has no `next` link
\* and returns the pages' lists concatenated in that order.
C19_FollowsNextLinks ==
    /\ Len(v3reqs) = Len(v3served)
    /\ \A k \in 1..Len(v3reqs) :
         /\ k = 1 => v3reqs[k] = [url |-> FirstUrl, params |-> v3data]
         /\ k > 1 => /\ HasNextLink(v3served[k - 1])
                     /\ v3reqs[k] = [url |-> v3served[k - 1].next, params |-> None]
    /\ v3pc = "returned" =>
         /\ ~HasNextLink(v3served[Len(v3served)])
         /\ AllLists(v3served) => fullresponse = List(ConcatBodies(v3served))
    /\ (v3pc = "loop" /\ AllLists(v3served)) =>
         fullresponse = List(ConcatBodies(v3served))
    /\ v3pc # "raised"

C19_Witness ==
    /\ v3pc = "returned"
    /\ Len(v3reqs) = 3
    /\ v3data # None
    /\ AllLists(v3served)
    /\ Len(fullresponse.items) >= 4
    /\ v3served[1].next # v3served[2].next

\* C17 (as claimed): a REST response with an error status is never used as
\* data -- its body is not decoded.
C17_RestErrorNotUsed ==
    \A k \in 1..Len(v3served) :
        BadResponse(v3served[k].status) => v3decodes < k

\* ---- repos clone ----
\* C12: with `into` given at most one git clone is run, however many repos
\* match; with no matching repo, or none selected, no clone is run.
C12_AtMostOneCloneInto ==
    /\ into # NoInto => Len(cloneCmds) <= 1
    /\ Len(repos) = 0 => cloneCmds = <<>>
    /\ (clpc \in {"loop", "returned"} /\ repo_idxs = <<>>) => cloneCmds = <<>>
    /\ clpc = "returned" =>
         /\ Len(cloneCmds) = Len(repo_idxs)
         /\ \A k \in 1..Len(cloneCmds) :
              cloneCmds[k] = [url |-> repos[repo_idxs[k]].html_url, into |-> into]
         /\ (into # NoInto /\ Len(repos) > 0) => Len(cloneCmds) = 1

C12_Witness ==
    /\ clpc = "returned"
    /\ into # NoInto
    /\ Len(repos) = 4
    /\ cloneCmds = <<[url |-> "3", into |-> into]>>

\* ---- batch_get ----
ActsOf(d) == SelectSeq(vcs, LAMBDA a : a.dir = d)

Skipped(st) ==
    \/ ~st.hasFile
    \/ StripNewlines(st.content) = <<>>
    \/ StripNewlines(st.content) = <<"ghost">>

\* C18 (as claimed): a skipped subdirectory gets no command; any other one
\* gets exactly one pull when its target exists and exactly one clone when
\* it does not; every subdirectory is processed.
C18_OneActionPerDir ==
    /\ \A d \in 1..Len(bdirs) :
         IF Skipped(bdirs[d]) THEN ActsOf(d) = <<>>
         ELSE IF bdirs[d].targetExists THEN ActsOf(d) = <<Pull(d)>>
         ELSE /\ Len(ActsOf(d)) = 1
              /\ ActsOf(d)[1].kind = "clone"
    /\ bpc # "loop" => Len(bdirs) = ndirs

\* C18 (amended): as claimed, except that a subdirectory whose target does
\* not exist gets its one clone only when the user has a repository; with
\* none it gets no command, and when listing the repositories fails it
\* gets none and batch_get ends there.  Skipping never ends the run.
C18_OneActionPerDirAmended ==
    /\ \A d \in 1..Len(bdirs) :
         /\ Len(ActsOf(d)) <= 1
         /\ IF Skipped(bdirs[d]) THEN ActsOf(d) = <<>>
            ELSE IF bdirs[d].targetExists THEN ActsOf(d) = <<Pull(d)>>
            ELSE IF bdirs[d].nrepos >= 1
            THEN /\ Len(ActsOf(d)) = 1
                 /\ ActsOf(d)[1].kind = "clone"
                 /\ ActsOf(d)[1].url \in { RepoNode(i).html_url : i \in 1..bdirs[d].nrepos }
            ELSE ActsOf(d) = <<>>
         /\ (d < Len(bdirs) \/ bpc # "stopped") =>
              (Skipped(bdirs[d]) \/ bdirs[d].targetExists \/ bdirs[d].nrepos # ListingFailed)
    /\ bpc = "stopped" =>
         LET st == bdirs[Len(bdirs)]
         IN  ~Skipped(st) /\ ~st.targetExists /\ st.nrepos = ListingFailed
    /\ bpc = "finished" => Len(bdirs) = ndirs
    /\ \A k \in 1..Len(vcs) : k < Len(vcs) => vcs[k].dir < vcs[k + 1].dir

C18_Witness ==
    /\ bpc = "finished"
    /\ ndirs = 2
    /\ Skipped(bdirs[1])
    /\ vcs = <<Clone(2, "2")>>
    /\ bdirs[2].nrepos = 2

\* ---- interleaved invocations ----
\* the outcome of one invocation run alone on the pages it was served:
\* the pages after the first merged, in order, into a copy of the first
RECURSIVE MergedAlone(_, _)
MergedAlone(doc, rest) ==
    IF rest = <<>> THEN [err |-> "", val |-> doc]
    ELSE LET m == merge(<<doc, Head(rest).body>>, 1, 2, FullPath)
         IN  IF m.err # "" THEN [err |-> m.err, val |-> doc]
             ELSE MergedAlone(m.heap[1], Tail(rest))

AloneOutcome(pages) ==
    LET last == pages[Len(pages)]
    IN  IF last.status # HttpOK THEN [err |-> "Exception", val |-> None]
        ELSE IF IsError(next_page(last.body, FullPath))
        THEN [err |-> next_page(last.body, FullPath).e, val |-> None]
        ELSE MergedAlone(pages[1].body, Tail(pages))

PRefs(p) == { presp[p][i] : i \in 1..Len(presp[p]) } \cup ({pfinal[p]} \ {0})

\* C11: interleaved invocations end as each would alone; each has its own
\* cursor, page list and accumulator (no heap object is referenced by
\* both), and the authentication headers are only read.
C11_Independent ==
    /\ \A p \in Procs :
         /\ ppc[p] = "returned" =>
              /\ AloneOutcome(pserved[p]).err = ""
              /\ pheap[pfinal[p]] = AloneOutcome(pserved[p]).val
         /\ ppc[p] = "raised" => perr[p] = AloneOutcome(pserved[p]).err
         /\ Cardinality(PRefs(p)) = Len(presp[p]) + (IF pfinal[p] = 0 THEN 0 ELSE 1)
         /\ ppc[p] \in {"format", "post"} =>
              Len(presp[p]) = Len(pserved[p])
         /\ \A k \in 1..Len(psent[p]) : psent[p][k].headers = AuthHeaders
         /\ \A k \in 2..Len(psent[p]) :
              AfterTokens(psent[p][k].body) = <<Tok("after", PageEndCursor(pserved[p][k - 1]).s)>>
    /\ PRefs(1) \cap PRefs(2) = {}
    /\ v4headers = AuthHeaders

C11_Witness ==
    /\ ppc[1] = "returned" /\ ppc[2] = "returned"
    /\ Len(psent[1]) = 2 /\ Len(psent[2]) = 2
    /\ pfinal[1] = 2 /\ pfinal[2] = 1
    /\ Len(get(pheap[1], FullPath).items) >= 2
    /\ Len(get(pheap[2], FullPath).items) >= 2

====
